---- MODULE Spec2Model ----
(***************************************************************************)
(* Model of the enVector MCP server's boundary layer:                      *)
(*   srcs/server.py            tool_insert, tool_search, index tools       *)
(*   srcs/adapter/enVector_sdk.py  call_insert, call_search,               *)
(*                                 _to_json_available                      *)
(*   srcs/adapter/embeddings.py    get_embedding                           *)
(*   srcs/server.py            _handle_shutdown                            *)
(*                                                                         *)
(* Python values are tagged pairs <<tag, payload>>.  Strings are sequences *)
(* of one-character tokens so that json.loads and str.strip are computed   *)
(* the way the library computes them.                                      *)
(***************************************************************************)
EXTENDS Integers, Sequences, FiniteSets, TLC

(***************************************************************************)
(* Bounds of the model.                                                    *)
(***************************************************************************)
MaxStrLen == 3
MaxListLen == 2
\* tool invocations that may be in flight together
NTasks == 2

(***************************************************************************)
(* Python values.                                                          *)
(***************************************************************************)
PyNone == <<"none", 0>>
PyBool(b) == <<"bool", b>>
PyInt(n) == <<"int", n>>
PyFloat(n) == <<"float", n>>
PyStr(s) == <<"str", s>>
PyList(s) == <<"list", s>>
PyTuple(s) == <<"tuple", s>>
PySet(s) == <<"set", s>>
PyDict(pairs) == <<"dict", pairs>>
NdArray(nested) == <<"ndarray", nested>>
PyObj(fields) == <<"obj", fields>>
Ref(a) == <<"ref", a>>

Tag(v) == v[1]
Val(v) == v[2]

IsNone(v) == Tag(v) = "none"
IsList(v) == Tag(v) = "list"
IsStr(v) == Tag(v) = "str"
IsNdarray(v) == Tag(v) = "ndarray"
\* isinstance(v, float): bool and int are not float
IsFloat(v) == Tag(v) = "float"
\* isinstance(v, (int, float)): bool is a subclass of int
IsIntOrFloat(v) == Tag(v) \in {"int", "float", "bool"}

Range(s) == {s[i] : i \in DOMAIN s}

\* results of a call that may raise
Ok(v) == <<"ok", v>>
Raise(exc, msg) == <<"raise", exc, msg>>
IsRaise(r) == r[1] = "raise"

(***************************************************************************)
(* str.strip(): drop leading and trailing whitespace.                      *)
(***************************************************************************)
RECURSIVE LStrip(_)
LStrip(s) == IF s # <<>> /\ Head(s) = " " THEN LStrip(Tail(s)) ELSE s

RECURSIVE RStrip(_)
RStrip(s) ==
    IF s # <<>> /\ s[Len(s)] = " " THEN RStrip(SubSeq(s, 1, Len(s) - 1)) ELSE s

strip(s) == RStrip(LStrip(s))

(***************************************************************************)
(* json.loads on the token alphabet "[", "]", ",", "1", ".", "x", " ":     *)
(*   text   ::= ws value ws                                                *)
(*   value  ::= number | array                                             *)
(*   number ::= "1"+ | "1"+ "." "1"                                        *)
(*   array  ::= "[" ws "]" | "[" ws value ws ("," ws value ws)* "]"        *)
(* Anything else raises JSONDecodeError.  A number without a fraction is   *)
(* an int, one with a fraction a float; PyFloat(n) is the float n / 10.    *)
(***************************************************************************)
RECURSIVE SkipWs(_, _)
SkipWs(s, i) == IF i <= Len(s) /\ s[i] = " " THEN SkipWs(s, i + 1) ELSE i

RECURSIVE ScanDigits(_, _, _)
ScanDigits(s, i, n) ==
    IF i <= Len(s) /\ s[i] = "1" THEN ScanDigits(s, i + 1, 10 * n + 1) ELSE <<n, i>>

ParseFail == <<FALSE, PyNone, 0>>

RECURSIVE ParseValue(_, _)
RECURSIVE ParseElems(_, _, _)
ParseValue(s, i) ==
    IF i > Len(s) THEN ParseFail
    ELSE IF s[i] = "1" THEN
        LET r == ScanDigits(s, i, 0) IN
        IF r[2] <= Len(s) /\ s[r[2]] = "."
        THEN IF r[2] + 1 <= Len(s) /\ s[r[2] + 1] = "1"
             THEN <<TRUE, PyFloat(10 * r[1] + 1), r[2] + 2>>
             ELSE ParseFail
        ELSE <<TRUE, PyInt(r[1]), r[2]>>
    ELSE IF s[i] = "[" THEN
        LET j == SkipWs(s, i + 1) IN
        IF j <= Len(s) /\ s[j] = "]" THEN <<TRUE, PyList(<<>>), j + 1>>
        ELSE ParseElems(s, j, <<>>)
    ELSE ParseFail

ParseElems(s, i, acc) ==
    LET r == ParseValue(s, i) IN
    IF ~r[1] THEN ParseFail
    ELSE
        LET j == SkipWs(s, r[3])
            acc2 == Append(acc, r[2])
        IN  IF j > Len(s) THEN ParseFail
            ELSE IF s[j] = "," THEN ParseElems(s, SkipWs(s, j + 1), acc2)
            ELSE IF s[j] = "]" THEN <<TRUE, PyList(acc2), j + 1>>
            ELSE ParseFail

json_loads(s) ==
    LET r == ParseValue(s, SkipWs(s, 1)) IN
    IF r[1] /\ SkipWs(s, r[3]) > Len(s) THEN Ok(r[2])
    ELSE Raise("JSONDecodeError", "json")

(***************************************************************************)
(* Values the engine may hand back.  Containers live in a heap of cells    *)
(* and are reached through references, so that a result can contain        *)
(* itself.  An opaque object is a record of what the sanitizer probes:     *)
(* the three serialization methods (absent, raising when invoked, or       *)
(* returning a value), its attribute dictionary (absent, raising on        *)
(* introspection, or a mapping) and its repr.                              *)
(***************************************************************************)
NCells == 2
\* the interpreter's recursion limit (sys.getrecursionlimit()), scaled down
RecursionLimit == 5

Absent == <<"absent">>
Raises == <<"raises">>
Returns(v) == <<"returns", v>>
AttrDict(pairs) == <<"dict", pairs>>

ObjRepr == <<"<", "o", ">">>
MethodNames == <<"model_dump", "dict", "to_dict">>

Obj(md, di, td, dct) ==
    PyObj([model_dump |-> md, dict |-> di, to_dict |-> td, dct |-> dct,
           repr |-> ObjRepr])

\* an object with one serialization method, the other two absent
ObjWith(name, m, dct) ==
    Obj(IF name = "model_dump" THEN m ELSE Absent,
        IF name = "dict" THEN m ELSE Absent,
        IF name = "to_dict" THEN m ELSE Absent,
        dct)

Refs == {Ref(a) : a \in 1..NCells}
Leaves == {PyNone, PyBool(TRUE), PyInt(1), PyFloat(5), PyStr(<<"s">>)}
Items == Leaves \cup Refs
InnerItems == {PyInt(1)} \cup Refs

KeyA == <<"a">>
KeyPrivate == <<"_", "p">>
KeyOne == <<"1">>

RootShapes ==
    {PyList(<<>>), PyDict(<<>>)}
    \cup {PyList(<<i>>) : i \in Items}
    \cup {PyList(<<PyInt(1), i>>) : i \in InnerItems}
    \cup {PyTuple(<<i>>) : i \in InnerItems}
    \cup {PySet(<<PyInt(1)>>), PySet(<<PyStr(<<"s">>), PyNone>>)}
    \cup {PyDict(<<<<k, i>>>>) : k \in {PyStr(KeyA), PyInt(1), PyNone}, i \in InnerItems}
    \cup {PyDict(<<<<PyInt(1), PyInt(1)>>, <<PyStr(KeyOne), i>>>>) : i \in InnerItems}
    \cup {ObjWith(n, m, Absent) :
            n \in Range(MethodNames),
            m \in {Raises} \cup {Returns(i) : i \in InnerItems}}
    \cup {ObjWith(n, Raises, AttrDict(<<<<PyStr(KeyA), i>>>>)) :
            n \in Range(MethodNames), i \in InnerItems}
    \cup {Obj(Returns(Ref(1)), Returns(PyInt(1)), Absent, Absent),
          Obj(Raises, Raises, Returns(PyStr(<<"s">>)), Absent)}
    \cup {Obj(Absent, Absent, Absent, d) :
            d \in {Absent, Raises, AttrDict(<<>>)}
                  \cup {AttrDict(<<<<PyStr(KeyA), i>>>>) : i \in InnerItems}
                  \cup {AttrDict(<<<<PyStr(KeyPrivate), i>>>>) : i \in InnerItems}
                  \cup {AttrDict(<<<<PyStr(KeyPrivate), PyInt(1)>>,
                                   <<PyStr(KeyA), i>>>>) : i \in InnerItems}
                  \cup {AttrDict(<<<<PyInt(1), PyInt(1)>>>>)}}

InnerShapes ==
    {PyList(<<i>>) : i \in InnerItems}
    \cup {PyDict(<<<<PyStr(KeyA), i>>>>) : i \in InnerItems}
    \cup {ObjWith("to_dict", Returns(i), Absent) : i \in InnerItems}
    \cup {Obj(Absent, Absent, Absent, AttrDict(<<<<PyStr(KeyA), i>>>>)) :
            i \in InnerItems}

Heaps ==
    {[a \in 1..NCells |-> IF a = 1 THEN r ELSE inner[a]] :
        r \in RootShapes, inner \in [2..NCells -> InnerShapes]}

\* a raw result: the heap and the value the engine returned
RawResults ==
    {<<h, Ref(1)>> : h \in Heaps}
    \cup {<<[a \in 1..NCells |-> PyList(<<>>)], v>> : v \in Leaves}

(***************************************************************************)
(* str(k) for a mapping key.                                               *)
(***************************************************************************)
DigitChars == <<"0", "1", "2", "3", "4", "5", "6", "7", "8", "9">>

RECURSIVE IntToStr(_)
IntToStr(n) ==
    IF n < 10 THEN <<DigitChars[n + 1]>>
    ELSE Append(IntToStr(n \div 10), DigitChars[(n % 10) + 1])

py_str(k) ==
    CASE Tag(k) = "str" -> Val(k)
      [] Tag(k) = "int" -> IntToStr(Val(k))
      [] Tag(k) = "bool" -> IF Val(k) THEN <<"T", "r", "u", "e">>
                                        ELSE <<"F", "a", "l", "s", "e">>
      [] Tag(k) = "none" -> <<"N", "o", "n", "e">>
      [] OTHER -> ObjRepr

\* dict construction: a later pair with an equal key replaces the value
RECURSIVE DictFromPairs(_, _)
DictFromPairs(pairs, acc) ==
    IF pairs = <<>> THEN acc
    ELSE
        LET p == Head(pairs)
            hit == {i \in DOMAIN acc : acc[i][1] = p[1]}
        IN  DictFromPairs(Tail(pairs),
                IF hit = {} THEN Append(acc, p)
                ELSE [i \in DOMAIN acc |-> IF i \in hit THEN p ELSE acc[i]])

(***************************************************************************)
(* EnVectorSDKAdapter._to_json_available(obj), called at recursion depth d *)
(* on a value of heap h.  Returns the sanitized value, or Raise(..) when   *)
(* the call raises.                                                        *)
(***************************************************************************)
RECURSIVE San(_, _, _)
RECURSIVE SanAll(_, _, _)
RECURSIVE SanPublic(_, _, _)
RECURSIVE TryMethods(_, _, _, _)

\* a comprehension over items: Ok(results), or the first exception raised
SanAll(h, items, d) ==
    IF items = <<>> THEN Ok(<<>>)
    ELSE
        LET r == San(h, Head(items), d) IN
        IF IsRaise(r) THEN r
        ELSE
            LET rest == SanAll(h, Tail(items), d) IN
            IF IsRaise(rest) THEN rest ELSE Ok(<<r>> \o rest[2])

\* mutant: the sequence branch loses the last element
SanSeqDropLast(h, v, d) ==
    LET rs == SanAll(h, Val(v), d + 1) IN
    IF IsRaise(rs) THEN rs
    ELSE PyList(SubSeq(rs[2], 1, IF rs[2] = <<>> THEN 0 ELSE Len(rs[2]) - 1))

SanSeq(h, v, d) ==
    LET rs == SanAll(h, Val(v), d + 1) IN
    IF IsRaise(rs) THEN rs ELSE PyList(rs[2])

\* mutant: the mapping branch without str(k)
SanDictKeepKeys(h, v, d) ==
    LET ps == Val(v)
        rs == SanAll(h, [i \in DOMAIN ps |-> ps[i][2]], d + 1)
    IN  IF IsRaise(rs) THEN rs
        ELSE PyDict(DictFromPairs([i \in DOMAIN ps |-> <<ps[i][1], rs[2][i]>>], <<>>))

SanDict(h, v, d) ==
    LET ps == Val(v)
        rs == SanAll(h, [i \in DOMAIN ps |-> ps[i][2]], d + 1)
    IN  IF IsRaise(rs) THEN rs
        ELSE PyDict(DictFromPairs(
                [i \in DOMAIN ps |-> <<PyStr(py_str(ps[i][1])), rs[2][i]>>], <<>>))

\* the loop over ("model_dump", "dict", "to_dict"): <<TRUE, r>> when one of
\* them returned r, <<FALSE, _>> when the loop fell through
TryMethods(h, o, d, names) ==
    IF names = <<>> THEN <<FALSE, PyNone>>
    ELSE
        LET m == o[Head(names)] IN
        IF m[1] # "returns" THEN TryMethods(h, o, d, Tail(names))
        ELSE
            LET r == San(h, m[2], d + 1) IN
            IF IsRaise(r) THEN TryMethods(h, o, d, Tail(names))
            ELSE <<TRUE, r>>

\* the comprehension over obj.__dict__.items(): k.startswith("_") raises
\* for a key that is no string; a private attribute is skipped unsanitized
SanPublic(h, pairs, d) ==
    IF pairs = <<>> THEN Ok(<<>>)
    ELSE
        LET k == Head(pairs)[1] IN
        IF Tag(k) # "str" THEN Raise("AttributeError", "startswith")
        ELSE IF Val(k) # <<>> /\ Head(Val(k)) = "_" THEN SanPublic(h, Tail(pairs), d)
        ELSE
            LET r == San(h, Head(pairs)[2], d) IN
            IF IsRaise(r) THEN r
            ELSE
                LET rest == SanPublic(h, Tail(pairs), d) IN
                IF IsRaise(rest) THEN rest ELSE Ok(<<<<k, r>>>> \o rest[2])

\* lines 132-136: <<TRUE, r>>, or <<FALSE, _>> when there is no __dict__ or
\* the try block raised
SanAttrs(h, o, d) ==
    IF o.dct[1] # "dict" THEN <<FALSE, PyNone>>
    ELSE
        LET rs == SanPublic(h, o.dct[2], d + 1) IN
        IF IsRaise(rs) THEN <<FALSE, PyNone>> ELSE <<TRUE, PyDict(rs[2])>>

SanObj(h, v, d) ==
    LET o == Val(v)
        m == TryMethods(h, o, d, MethodNames)
    IN  IF m[1] THEN m[2]
        ELSE
            LET a == SanAttrs(h, o, d) IN
            IF a[1] THEN a[2] ELSE PyStr(o.repr)

San(h, v, d) ==
    IF Tag(v) = "ref" THEN San(h, h[Val(v)], d)
    ELSE IF d > RecursionLimit THEN Raise("RecursionError", "depth")
    ELSE IF Tag(v) \in {"none", "str", "int", "float", "bool"} THEN v
    ELSE IF Tag(v) = "dict" THEN SanDict(h, v, d)
    ELSE IF Tag(v) \in {"list", "tuple", "set"} THEN SanSeq(h, v, d)
    ELSE SanObj(h, v, d)

_to_json_available(h, v) == San(h, v, 1)

(***************************************************************************)
(* embeddings.py: the embedding collaborator.  Embed(t) stands for the     *)
(* model's vector for text t; fault names the exception the underlying     *)
(* model raises, "none" when it answers.                                   *)
(***************************************************************************)
EmbeddingModes == {"sbert", "hf", "openai"}
EmbeddingFaults == {"none", "RuntimeError", "ValueError"}

Embed(t) == PyList(<<PyFloat(IF IsStr(t) THEN Len(Val(t)) ELSE 0)>>)

SBERT_get_embedding(texts) ==
    PyList([i \in DOMAIN Val(texts) |-> Embed(Val(texts)[i])])

\* the loop keeps only the last text's tokenization
HF_get_embedding(texts) ==
    PyList(<<Embed(Val(texts)[Len(Val(texts))])>>)

OpenAI_get_embedding(texts) ==
    PyList([i \in DOMAIN Val(texts) |-> Embed(Val(texts)[i])])

\* EmbeddingAdapter.get_embedding: Ok(vectors) or Raise(..).  A value that
\* is not a non-empty list makes every adapter raise.
get_embedding(mode, texts, fault) ==
    IF fault # "none" THEN Raise(fault, "embedding")
    ELSE IF ~IsList(texts) \/ Val(texts) = <<>> THEN Raise("TypeError", "embedding")
    ELSE CASE mode = "sbert" -> Ok(SBERT_get_embedding(texts))
           [] mode = "hf" -> Ok(HF_get_embedding(texts))
           [] mode = "openai" -> Ok(OpenAI_get_embedding(texts))

(***************************************************************************)
(* server.py: tool_insert.                                                 *)
(***************************************************************************)
\* numpy.ndarray.tolist()
tolist(a) == Val(a)

\* all(isinstance(v, np.ndarray) for v in vectors)
AllNdarray(v) == \A i \in DOMAIN Val(v) : IsNdarray(Val(v)[i])
\* all(isinstance(v, float) for v in vectors)
AllFloat(v) == \A i \in DOMAIN Val(v) : IsFloat(Val(v)[i])

\* mutant: every list is wrapped as a single vector
NormalizeVectorsWrapLists(vectors) ==
    IF IsNdarray(vectors) THEN Ok(PyList(<<tolist(vectors)>>))
    ELSE IF IsList(vectors) THEN Ok(PyList(<<vectors>>))
    ELSE IF IsStr(vectors) THEN
        LET r == json_loads(Val(vectors)) IN
        IF IsRaise(r) THEN Raise("ValueError", "vectors_json") ELSE Ok(r[2])
    ELSE Ok(vectors)

\* lines 157-171: Ok(vectors) or Raise("ValueError", ..)
NormalizeVectors(vectors) ==
    IF IsNdarray(vectors) THEN Ok(PyList(<<tolist(vectors)>>))
    ELSE IF IsList(vectors) /\ AllNdarray(vectors)
        THEN Ok(PyList([i \in DOMAIN Val(vectors) |-> tolist(Val(vectors)[i])]))
    ELSE IF IsList(vectors) /\ AllFloat(vectors)
        THEN Ok(PyList(<<vectors>>))
    ELSE IF IsStr(vectors) THEN
        LET r == json_loads(Val(vectors)) IN
        IF IsRaise(r) THEN Raise("ValueError", "vectors_json") ELSE Ok(r[2])
    ELSE Ok(vectors)

\* mutant: a metadata string that fails to parse is passed on as it is
NormalizeMetadataKeepRaw(metadata) ==
    IF IsList(metadata) THEN metadata
    ELSE IF IsStr(metadata) THEN
        LET r == json_loads(Val(metadata)) IN
        IF IsRaise(r) THEN metadata ELSE r[2]
    ELSE PyList(<<metadata>>)

\* lines 175-185
NormalizeMetadata(metadata) ==
    IF IsList(metadata) THEN metadata
    ELSE IF IsStr(metadata) THEN
        LET r == json_loads(Val(metadata)) IN
        IF IsRaise(r) THEN PyList(<<metadata>>) ELSE r[2]
    ELSE PyList(<<metadata>>)

NoCalls == <<>>
InsertCall(vectors, metadata) == <<"insert", vectors, metadata>>
SearchCall(query) == <<"search", query>>

\* what a tool handler does up to its facade call: the fault it raises or
\* the facade call it makes, and the embedding calls made on the way
Faulted(exc, msg, embeds) == [fault |-> <<exc, msg>>, call |-> <<>>, embeds |-> embeds]
Calls(c, embeds) == [fault |-> <<>>, call |-> c, embeds |-> embeds]

\* mutant: the collaborator is invoked whenever one is configured, also when
\* vectors was supplied
InsertBodyAlwaysEmbed(vectors, metadata, emb, fault) ==
    LET nv == IF ~IsNone(vectors) THEN NormalizeVectors(vectors) ELSE Ok(PyNone) IN
    IF IsRaise(nv) THEN Faulted(nv[2], nv[3], NoCalls)
    ELSE IF IsNone(metadata) THEN Calls(InsertCall(nv[2], PyNone), NoCalls)
    ELSE
        LET md == NormalizeMetadata(metadata) IN
        IF emb # "none" THEN
            LET e == get_embedding(emb, md, fault) IN
            IF IsRaise(e) THEN Faulted(e[2], e[3], <<md>>)
            ELSE Calls(InsertCall(e[2], md), <<md>>)
        ELSE Calls(InsertCall(nv[2], md), NoCalls)

\* lines 157-190
InsertBody(vectors, metadata, emb, fault) ==
    LET nv == IF ~IsNone(vectors) THEN NormalizeVectors(vectors) ELSE Ok(PyNone) IN
    IF IsRaise(nv) THEN Faulted(nv[2], nv[3], NoCalls)
    ELSE IF IsNone(metadata) THEN Calls(InsertCall(nv[2], PyNone), NoCalls)
    ELSE
        LET md == NormalizeMetadata(metadata) IN
        IF IsNone(nv[2]) /\ emb # "none" THEN
            LET e == get_embedding(emb, md, fault) IN
            IF IsRaise(e) THEN Faulted(e[2], e[3], <<md>>)
            ELSE Calls(InsertCall(e[2], md), <<md>>)
        ELSE Calls(InsertCall(nv[2], md), NoCalls)

\* mutant: the handler without its check of lines 154-155
ToolInsertNoGuard(vectors, metadata, emb, fault) ==
    InsertBody(vectors, metadata, emb, fault)

\* lines 154-190
tool_insert(vectors, metadata, emb, fault) ==
    IF IsNone(vectors) /\ IsNone(metadata)
    THEN Faulted("ValueError", "vectors_or_metadata_required", NoCalls)
    ELSE InsertBody(vectors, metadata, emb, fault)

(***************************************************************************)
(* server.py: tool_search.                                                 *)
(***************************************************************************)
_is_vector(value) ==
    IsList(value) /\ \A i \in DOMAIN Val(value) : IsIntOrFloat(Val(value)[i])

\* all(_is_vector(item) for item in raw_query)
AllVectors(v) == \A i \in DOMAIN Val(v) : _is_vector(Val(v)[i])

\* lines 232-248, after the string branch
PreprocessShape(raw, embeds) ==
    LET q == IF IsNdarray(raw) THEN tolist(raw)
             ELSE IF IsList(raw) /\ AllNdarray(raw)
                 THEN PyList([i \in DOMAIN Val(raw) |-> tolist(Val(raw)[i])])
             ELSE raw
    IN  IF _is_vector(q) THEN Calls(SearchCall(q), embeds)
        ELSE IF IsList(q) /\ AllVectors(q) THEN Calls(SearchCall(q), embeds)
        ELSE Faulted("ValueError", "query_shape", embeds)

\* lines 214-248
_preprocess_query(raw_query, emb, fault) ==
    IF IsStr(raw_query) THEN
        LET q == PyStr(strip(Val(raw_query))) IN
        IF emb # "none" THEN
            LET e == get_embedding(emb, PyList(<<q>>), fault) IN
            IF IsRaise(e) THEN Faulted(e[2], e[3], <<PyList(<<q>>)>>)
            ELSE Calls(SearchCall(Val(e[2])[1]), <<PyList(<<q>>)>>)
        ELSE IF Val(q) = <<>> THEN Faulted("ValueError", "query_empty", NoCalls)
        ELSE
            LET r == json_loads(Val(q)) IN
            IF IsRaise(r) THEN Faulted("ValueError", "query_plain_text", NoCalls)
            ELSE PreprocessShape(r[2], NoCalls)
    ELSE PreprocessShape(raw_query, NoCalls)

\* mutant: the ValueError of the preprocessing is not translated
ToolSearchNoTranslate(query, emb, fault) == _preprocess_query(query, emb, fault)

\* lines 250-254: a ValueError of the preprocessing becomes a ToolError
tool_search(query, emb, fault) ==
    LET p == _preprocess_query(query, emb, fault) IN
    IF p.fault # <<>> /\ p.fault[1] = "ValueError"
    THEN Faulted("ToolError", p.fault[2], p.embeds)
    ELSE p

(***************************************************************************)
(* enVector_sdk.py: the facade.  The engine's answer to a call is          *)
(* <<"return", heap, value>> or <<"raise", exception>>.                    *)
(***************************************************************************)
EngineReturn(h, v) == <<"return", h, v>>
EngineRaise(exc) == <<"raise", exc>>

KeyOk == PyStr(<<"ok">>)
KeyResults == PyStr(<<"results">>)
KeyError == PyStr(<<"error">>)

\* repr(e) of an exception
ExcRepr(exc) == PyStr(<<exc, "(", ")">>)

OkEnvelopeRaw(v) == PyDict(<<<<KeyOk, PyBool(TRUE)>>, <<KeyResults, v>>>>)
ErrorEnvelope(exc) == PyDict(<<<<KeyOk, PyBool(FALSE)>>, <<KeyError, ExcRepr(exc)>>>>)

\* mutant: call_insert without its try/except
CallInsertNoCatch(answer) ==
    IF answer[1] = "raise" THEN Raise(answer[2], "engine")
    ELSE _to_json_available(answer[2], OkEnvelopeRaw(answer[3]))

\* lines 49-54.  The sanitizer runs inside the try block, so whatever it
\* raises is turned into the error envelope too.
call_insert(answer) ==
    IF answer[1] = "raise" THEN ErrorEnvelope(answer[2])
    ELSE
        LET r == _to_json_available(answer[2], OkEnvelopeRaw(answer[3])) IN
        IF IsRaise(r) THEN ErrorEnvelope(r[2]) ELSE r

\* mutant: the error envelope of call_search also carries a results key
CallSearchBothKeys(answer) ==
    IF answer[1] = "raise"
    THEN PyDict(<<<<KeyOk, PyBool(FALSE)>>, <<KeyResults, PyNone>>,
                  <<KeyError, ExcRepr(answer[2])>>>>)
    ELSE
        LET r == _to_json_available(answer[2], OkEnvelopeRaw(answer[3])) IN
        IF IsRaise(r) THEN ErrorEnvelope(r[2]) ELSE r

\* lines 86-91
call_search(answer) ==
    IF answer[1] = "raise" THEN ErrorEnvelope(answer[2])
    ELSE
        LET r == _to_json_available(answer[2], OkEnvelopeRaw(answer[3])) IN
        IF IsRaise(r) THEN ErrorEnvelope(r[2]) ELSE r

\* call_create_index, call_get_index_list, call_get_index_info: success is
\* sanitized into {ok: true, results}, any exception becomes {ok: false, error}
call_index_passthrough(answer) ==
    IF answer[1] = "raise" THEN ErrorEnvelope(answer[2])
    ELSE
        LET r == _to_json_available(answer[2], OkEnvelopeRaw(answer[3])) IN
        IF IsRaise(r) THEN ErrorEnvelope(r[2]) ELSE r

\* the index tools of server.py hand their arguments to the facade as they are
tool_create_index == Calls(<<"create_index">>, NoCalls)
tool_get_index_list == Calls(<<"get_index_list">>, NoCalls)
tool_get_index_info == Calls(<<"get_index_info">>, NoCalls)

(***************************************************************************)
(* Inputs.                                                                 *)
(***************************************************************************)
Tokens == {"[", "]", ",", "1", "x", " "}
Strings(n) == UNION {[1..k -> Tokens] : k \in 0..n}
\* JSON texts longer than the bound: "[[1]]", "[1,1]", "[[1],[1,1]]",
\* "[1.1]", "[[1.1]]"
JsonTexts ==
    {<<"[", "[", "1", "]", "]">>, <<"[", "1", ",", "1", "]">>,
     <<"[", "[", "1", "]", ",", "[", "1", ",", "1", "]", "]">>,
     <<"[", "1", ".", "1", "]">>, <<"[", "[", "1", ".", "1", "]", "]">>}
StrInputs == {PyStr(s) : s \in Strings(MaxStrLen) \cup JsonTexts}

Vec1 == PyList(<<PyFloat(1), PyFloat(2)>>)
VecElems ==
    {PyFloat(1), PyInt(1), PyStr(<<"x">>), Vec1, PyList(<<>>),
     PyList(<<PyStr(<<"x">>)>>), NdArray(Vec1)}
ListInputs == {PyList(s) : s \in UNION {[1..k -> VecElems] : k \in 0..MaxListLen}}
NdInputs == {NdArray(Vec1), NdArray(PyList(<<Vec1, Vec1>>))}

\* `vectors` (None by default) and `query` (typed Any)
VecInputs == {PyNone} \cup ListInputs \cup StrInputs \cup NdInputs
QueryInputs ==
    {PyNone, PyDict(<<>>), PyInt(1)} \cup ListInputs \cup StrInputs \cup NdInputs

MetaBatch == PyList(<<PyStr(<<"x">>), PyDict(<<>>)>>)
\* two texts of different lengths
TextBatch == PyList(<<PyStr(<<"x">>), PyStr(<<"x", "x">>)>>)
MetaInputs ==
    {PyNone, MetaBatch, TextBatch, PyList(<<>>), PyDict(<<>>), PyInt(1)}
    \cup {PyStr(s) : s \in Strings(MaxStrLen - 2)}

InsertInputs ==
    (VecInputs \X {PyNone, MetaBatch})
    \cup ({PyNone, PyList(<<Vec1, Vec1>>)} \X MetaInputs)

\* what the engine may answer: a value, or an exception of a class derived
\* from Exception
EngineFaults == {"RuntimeError", "ValueError"}
InnerCell == PyList(<<PyInt(1)>>)
\* a sample of RawResults: plain, nested and self-referential containers,
\* a non-string key, a tuple and opaque objects
EngineRoots ==
    {PyList(<<Ref(1)>>), PyList(<<Ref(2)>>),
     PyTuple(<<PyStr(<<"s">>)>>),
     PyDict(<<<<PyInt(1), PyFloat(5)>>>>), PyDict(<<<<PyStr(KeyA), Ref(1)>>>>),
     Obj(Absent, Absent, Absent, Absent),
     Obj(Absent, Absent, Absent, AttrDict(<<<<PyStr(KeyA), Ref(1)>>>>))}
EngineAnswers ==
    {EngineReturn([a \in 1..NCells |-> IF a = 1 THEN r ELSE InnerCell], Ref(1)) :
        r \in EngineRoots}
    \cup {EngineReturn([a \in 1..NCells |-> InnerCell], PyNone)}
    \cup {EngineRaise(e) : e \in EngineFaults}

(***************************************************************************)
(* State.                                                                  *)
(*   embedding    the embedding collaborator's mode, "none" when the       *)
(*                server runs without one                                  *)
(*   pc           "idle", "engine" (the handler is inside the facade's     *)
(*                engine call) or "done"                                   *)
(*   req          the tool call being served                               *)
(*   engineCalls  the engine calls made for it, in order                   *)
(*   embedCalls   the get_embedding calls made for it, in order            *)
(*   engineAnswer what the engine answered to the pending call             *)
(*   outcome      what the handler raised or returned                      *)
(*   sanIn/sanOut the last call of _to_json_available and its result       *)
(*   frames       the frame of every task that serves a tool invocation    *)
(*                when several are in flight                               *)
(*   proc         "running", or "exited" once the process has ended        *)
(***************************************************************************)
VARIABLES embedding, pc, req, engineCalls, embedCalls, engineAnswer, outcome,
          sanIn, sanOut, frames, proc

vars == <<embedding, pc, req, engineCalls, embedCalls, engineAnswer, outcome,
          sanIn, sanOut, frames, proc>>

NoReq == <<"idle">>
NoOutcome == <<"none">>
NoAnswer == <<"none">>
NoSan == <<"none">>

Tasks == 1..NTasks
\* a task's frame: where it stands, its request, the handler's local names
\* (vectors or query, metadata), what the embedding collaborator was called
\* with and did, what the engine was called with and answered, the outcome
IdleFrame ==
    [stage |-> "idle", req |-> NoReq, locals |-> <<PyNone, PyNone>>,
     embeds |-> NoCalls, efault |-> "none", called |-> <<>>,
     answer |-> NoAnswer, outcome |-> NoOutcome]
IdleFrames == [t \in Tasks |-> IdleFrame]

Init ==
    /\ embedding \in {"none"} \cup EmbeddingModes
    /\ pc = "idle"
    /\ req = NoReq
    /\ engineCalls = NoCalls
    /\ embedCalls = NoCalls
    /\ engineAnswer = NoAnswer
    /\ outcome = NoOutcome
    /\ sanIn = NoSan
    /\ sanOut = NoSan
    /\ frames = IdleFrames
    /\ proc = "running"

\* a handler ran up to its facade call, or raised before it
Dispatch(request, t) ==
    /\ req' = request
    /\ embedCalls' = t.embeds
    /\ IF t.fault # <<>>
       THEN /\ pc' = "done"
            /\ engineCalls' = NoCalls
            /\ outcome' = <<"raise", t.fault[1], t.fault[2]>>
       ELSE /\ pc' = "engine"
            /\ engineCalls' = <<t.call>>
            /\ outcome' = NoOutcome
    /\ UNCHANGED <<embedding, engineAnswer, sanIn, sanOut, frames, proc>>

FaultChoices == IF embedding = "none" THEN {"none"} ELSE EmbeddingFaults

ToolInsert(vectors, metadata, fault) ==
    /\ pc = "idle"
    /\ Dispatch(<<"insert", vectors, metadata>>,
                tool_insert(vectors, metadata, embedding, fault))

ToolSearch(query, fault) ==
    /\ pc = "idle"
    /\ Dispatch(<<"search", query>>, tool_search(query, embedding, fault))

ToolCreateIndex ==
    /\ pc = "idle"
    /\ Dispatch(<<"create_index">>, tool_create_index)

ToolGetIndexList ==
    /\ pc = "idle"
    /\ Dispatch(<<"get_index_list">>, tool_get_index_list)

ToolGetIndexInfo ==
    /\ pc = "idle"
    /\ Dispatch(<<"get_index_info">>, tool_get_index_info)

\* the engine answers the pending call and the facade finishes
EngineAnswer(answer) ==
    /\ pc = "engine"
    /\ LET op == engineCalls[1][1]
           env == CASE op = "insert" -> call_insert(answer)
                    [] op = "search" -> call_search(answer)
                    [] OTHER -> call_index_passthrough(answer)
       IN  /\ outcome' = IF IsRaise(env) THEN env ELSE <<"return", env>>
           /\ IF answer[1] = "return"
              THEN /\ sanIn' = <<answer[2], OkEnvelopeRaw(answer[3])>>
                   /\ sanOut' = _to_json_available(answer[2], OkEnvelopeRaw(answer[3]))
              ELSE UNCHANGED <<sanIn, sanOut>>
    /\ engineAnswer' = answer
    /\ pc' = "done"
    /\ UNCHANGED <<embedding, req, engineCalls, embedCalls, frames, proc>>

\* the response is delivered; the next call starts from a clean slate
Finish ==
    /\ pc = "done"
    /\ pc' = "idle"
    /\ req' = NoReq
    /\ engineCalls' = NoCalls
    /\ embedCalls' = NoCalls
    /\ engineAnswer' = NoAnswer
    /\ outcome' = NoOutcome
    /\ sanIn' = NoSan
    /\ sanOut' = NoSan
    /\ UNCHANGED <<embedding, frames, proc>>

Next ==
    \/ pc = "idle" /\ \E in \in InsertInputs, f \in FaultChoices :
                        ToolInsert(in[1], in[2], f)
    \/ pc = "idle" /\ \E q \in QueryInputs, f \in FaultChoices : ToolSearch(q, f)
    \/ ToolCreateIndex
    \/ ToolGetIndexList
    \/ ToolGetIndexInfo
    \/ pc = "engine" /\ \E a \in EngineAnswers : EngineAnswer(a)
    \/ Finish

Spec == Init /\ [][Next]_vars

(***************************************************************************)
(* The sanitizer on its own: every raw result of the universe is handed    *)
(* to _to_json_available.                                                  *)
(***************************************************************************)
SanInit ==
    /\ embedding = "none"
    /\ pc = "sanitize"
    /\ req = NoReq
    /\ engineCalls = NoCalls
    /\ embedCalls = NoCalls
    /\ engineAnswer = NoAnswer
    /\ outcome = NoOutcome
    /\ sanIn \in RawResults
    /\ sanOut = NoSan
    /\ frames = IdleFrames
    /\ proc = "running"

Sanitize ==
    /\ pc = "sanitize"
    /\ sanOut' = _to_json_available(sanIn[1], sanIn[2])
    /\ pc' = "sanitized"
    /\ UNCHANGED <<embedding, req, engineCalls, embedCalls, engineAnswer, outcome,
                   sanIn, frames, proc>>

SanNext == Sanitize

SanSpec == SanInit /\ [][SanNext]_vars

(***************************************************************************)
(* Several tool invocations in flight on one process.  Each invocation is  *)
(* a task with its own frame; a task is suspended before its call of the   *)
(* embedding collaborator and before its engine call, and tasks interleave *)
(* at those points.  The process ends when the signal handler installed by *)
(* main() runs.                                                            *)
(***************************************************************************)
ConcInserts == {<<Vec1, PyNone>>, <<PyNone, PyStr(<<"x">>)>>, <<PyNone, PyNone>>}
ConcQueries == {PyStr(<<"[", "1", "]">>), Vec1}
ConcAnswers ==
    {EngineReturn([a \in 1..NCells |-> PyList(<<PyInt(1)>>)], Ref(1)),
     EngineReturn([a \in 1..NCells |-> PyList(<<Ref(1)>>)], Ref(1)),
     EngineRaise("RuntimeError")}
ConcModes == {"none", "sbert"}

ConcInit ==
    /\ embedding \in ConcModes
    /\ pc = "conc"
    /\ req = NoReq
    /\ engineCalls = NoCalls
    /\ embedCalls = NoCalls
    /\ engineAnswer = NoAnswer
    /\ outcome = NoOutcome
    /\ sanIn = NoSan
    /\ sanOut = NoSan
    /\ frames = IdleFrames
    /\ proc = "running"

ConcUnchanged ==
    UNCHANGED <<embedding, pc, req, engineCalls, embedCalls, engineAnswer, outcome,
                sanIn, sanOut, proc>>

\* mutant: the handler keeps its working values in one place shared by all
\* invocations instead of in its own local names
StoreLocalsShared(fs, t, new) ==
    [u \in DOMAIN fs |->
        IF u = t THEN new ELSE [fs[u] EXCEPT !.locals = new.locals]]

\* a handler's assignments go to the names of its own frame
StoreLocals(fs, t, new) == [fs EXCEPT ![t] = new]

\* the task ends by raising
FrameRaise(f, exc, msg) ==
    [f EXCEPT !.stage = "done", !.outcome = <<"raise", exc, msg>>]

\* server.py lines 154-187: tool_insert up to its first boundary call
ConcInsertStart(t, vectors, metadata) ==
    /\ proc = "running"
    /\ frames[t].stage = "idle"
    /\ LET f == [IdleFrame EXCEPT !.req = <<"insert", vectors, metadata>>]
           nv == IF ~IsNone(vectors) THEN NormalizeVectors(vectors) ELSE Ok(PyNone)
           md == IF ~IsNone(metadata) THEN NormalizeMetadata(metadata) ELSE PyNone
       IN  frames' = StoreLocals(frames, t,
                IF IsNone(vectors) /\ IsNone(metadata)
                THEN FrameRaise(f, "ValueError", "vectors_or_metadata_required")
                ELSE IF IsRaise(nv) THEN FrameRaise(f, nv[2], nv[3])
                ELSE [f EXCEPT !.locals = <<nv[2], md>>,
                               !.stage = IF ~IsNone(metadata) /\ IsNone(nv[2])
                                            /\ embedding # "none"
                                         THEN "embed" ELSE "engine"])
    /\ ConcUnchanged

\* server.py lines 214-252: tool_search up to its first boundary call
ConcSearchStart(t, query) ==
    /\ proc = "running"
    /\ frames[t].stage = "idle"
    /\ LET f == [IdleFrame EXCEPT !.req = <<"search", query>>]
           q == IF IsStr(query) THEN strip(Val(query)) ELSE <<>>
           parsed == IF IsStr(query) THEN json_loads(q) ELSE Ok(query)
           shape == PreprocessShape(parsed[2], NoCalls)
       IN  frames' = StoreLocals(frames, t,
                IF IsStr(query) /\ embedding # "none"
                THEN [f EXCEPT !.locals = <<PyStr(q), PyNone>>, !.stage = "embed"]
                ELSE IF IsStr(query) /\ q = <<>>
                THEN FrameRaise(f, "ToolError", "query_empty")
                ELSE IF IsRaise(parsed)
                THEN FrameRaise(f, "ToolError", "query_plain_text")
                ELSE IF shape.fault # <<>>
                THEN FrameRaise(f, "ToolError", shape.fault[2])
                ELSE [f EXCEPT !.locals = <<shape.call[2], PyNone>>, !.stage = "engine"])
    /\ ConcUnchanged

\* server.py line 188 (insert) and line 220 (search): the collaborator
\* answers or raises; search translates a ValueError into a ToolError
ConcEmbed(t, fault) ==
    /\ proc = "running"
    /\ frames[t].stage = "embed"
    /\ LET f == frames[t]
           insert == f.req[1] = "insert"
           texts == IF insert THEN f.locals[2] ELSE PyList(<<f.locals[1]>>)
           e == get_embedding(embedding, texts, fault)
           g == [f EXCEPT !.embeds = <<texts>>, !.efault = fault]
       IN  frames' = StoreLocals(frames, t,
                IF IsRaise(e)
                THEN FrameRaise(g, IF ~insert /\ e[2] = "ValueError"
                                   THEN "ToolError" ELSE e[2], e[3])
                ELSE [g EXCEPT !.stage = "engine",
                               !.locals = IF insert THEN <<e[2], f.locals[2]>>
                                          ELSE <<Val(e[2])[1], PyNone>>])
    /\ ConcUnchanged

\* server.py lines 190 and 254 into enVector_sdk.py lines 50 and 87: the
\* engine is invoked with the handler's locals and answers
ConcEngineCall(t, answer) ==
    /\ proc = "running"
    /\ frames[t].stage = "engine"
    /\ LET f == frames[t] IN
       frames' = StoreLocals(frames, t,
            [f EXCEPT !.stage = "answered",
                      !.called = IF f.req[1] = "insert"
                                 THEN InsertCall(f.locals[1], f.locals[2])
                                 ELSE SearchCall(f.locals[1]),
                      !.answer = answer])
    /\ ConcUnchanged

\* enVector_sdk.py lines 51-54 and 88-91: the envelope is built from the
\* engine's answer and returned through the handler
ConcReturn(t) ==
    /\ proc = "running"
    /\ frames[t].stage = "answered"
    /\ LET f == frames[t]
           r == IF f.answer[1] = "raise" THEN Raise(f.answer[2], "engine")
                ELSE _to_json_available(f.answer[2], OkEnvelopeRaw(f.answer[3]))
       IN  frames' = StoreLocals(frames, t,
                [f EXCEPT !.stage = "done",
                          !.outcome = <<"return",
                                        IF IsRaise(r) THEN ErrorEnvelope(r[2]) ELSE r>>])
    /\ ConcUnchanged

\* the response (or the fault) is delivered to the client
ConcDeliver(t) ==
    /\ proc = "running"
    /\ frames[t].stage = "done"
    /\ frames' = StoreLocals(frames, t, IdleFrame)
    /\ ConcUnchanged

\* server.py lines 415-421: _handle_shutdown raises SystemExit(0) in the main
\* thread, whatever the tasks are doing; nothing runs afterwards
Signal ==
    /\ proc = "running"
    /\ proc' = "exited"
    /\ UNCHANGED <<embedding, pc, req, engineCalls, embedCalls, engineAnswer,
                   outcome, sanIn, sanOut, frames>>

ConcNext ==
    \/ \E t \in Tasks : \E in \in ConcInserts : ConcInsertStart(t, in[1], in[2])
    \/ \E t \in Tasks : \E q \in ConcQueries : ConcSearchStart(t, q)
    \/ \E t \in Tasks : \E f \in FaultChoices : ConcEmbed(t, f)
    \/ \E t \in Tasks : \E a \in ConcAnswers : ConcEngineCall(t, a)
    \/ \E t \in Tasks : ConcReturn(t)
    \/ \E t \in Tasks : ConcDeliver(t)
    \/ Signal

ConcSpec == ConcInit /\ [][ConcNext]_vars

(***************************************************************************)
(* Properties.                                                             *)
(***************************************************************************)
DictHas(d, k) == \E i \in DOMAIN Val(d) : Val(d)[i][1] = k
DictGet(d, k) == Val(d)[CHOOSE i \in DOMAIN Val(d) : Val(d)[i][1] = k][2]

Op == req[1]
EngineCalled == engineCalls # NoCalls
Returned == outcome[1] = "return"
HandlerRaised == outcome[1] = "raise"

\* C1: every facade operation a tool reaches (insert, search and the index
\* passthroughs) returns normally whatever the engine answers: no exception
\* leaves the facade, and when the engine call raised, the value returned is
\* {ok: false, error: <non-empty string naming the exception>}.
C1_FacadeNeverRaises ==
    (pc = "done" /\ EngineCalled) =>
        /\ Returned
        /\ engineAnswer[1] = "raise" =>
            /\ Tag(outcome[2]) = "dict"
            /\ DictHas(outcome[2], KeyOk)
            /\ DictGet(outcome[2], KeyOk) = PyBool(FALSE)
            /\ DictHas(outcome[2], KeyError)
            /\ Tag(DictGet(outcome[2], KeyError)) = "str"
            /\ Val(DictGet(outcome[2], KeyError)) # <<>>
            /\ Val(DictGet(outcome[2], KeyError))[1] = engineAnswer[2]

C1_Witness ==
    /\ pc = "done"
    /\ Op = "insert"
    /\ engineAnswer = EngineRaise("RuntimeError")
    /\ outcome = <<"return", ErrorEnvelope("RuntimeError")>>

\* C2: every value call_insert and call_search return is an envelope with a
\* boolean ok and exactly one of results / error: results and no error when
\* ok is true, a string error and no results when ok is false.
WellFormedEnvelope(env) ==
    /\ Tag(env) = "dict"
    /\ DictHas(env, KeyOk)
    /\ Tag(DictGet(env, KeyOk)) = "bool"
    /\ IF Val(DictGet(env, KeyOk))
       THEN DictHas(env, KeyResults) /\ ~DictHas(env, KeyError)
       ELSE /\ DictHas(env, KeyError) /\ ~DictHas(env, KeyResults)
            /\ Tag(DictGet(env, KeyError)) = "str"

C2_EnvelopeWellFormed ==
    (pc = "done" /\ EngineCalled /\ Op \in {"insert", "search"} /\ Returned) =>
        WellFormedEnvelope(outcome[2])

C2_Witness ==
    /\ pc = "done"
    /\ Op = "search"
    /\ engineAnswer = EngineRaise("ValueError")
    /\ Returned
    /\ DictHas(outcome[2], KeyError)

\* C3 (as claimed): when the engine call of insert or search returns, the
\* facade returns {ok: true, results: S}, S the sanitized engine value; an
\* {ok: false} envelope is returned only when the engine call raised.
C3_OkWheneverEngineReturns ==
    (pc = "done" /\ EngineCalled /\ Op \in {"insert", "search"}
        /\ engineAnswer[1] = "return") =>
        /\ Returned
        /\ Tag(outcome[2]) = "dict"
        /\ DictHas(outcome[2], KeyOk)
        /\ DictGet(outcome[2], KeyOk) = PyBool(TRUE)
        /\ DictHas(outcome[2], KeyResults)
        /\ DictGet(outcome[2], KeyResults) = San(engineAnswer[2], engineAnswer[3], 2)

\* C4 (as claimed): _to_json_available returns a value for every input and
\* never raises, self-referential containers included.
C4_SanitizerNeverRaises == (pc = "sanitized") => ~IsRaise(sanOut)

\* C5: whenever _to_json_available returns, the result holds, at every depth,
\* only None, booleans, numbers, strings, lists and mappings whose keys are
\* all strings.
RECURSIVE JsonSafe(_)
JsonSafe(v) ==
    CASE Tag(v) \in {"none", "bool", "int", "float", "str"} -> TRUE
      [] Tag(v) = "list" -> \A i \in DOMAIN Val(v) : JsonSafe(Val(v)[i])
      [] Tag(v) = "dict" ->
            \A i \in DOMAIN Val(v) :
                Tag(Val(v)[i][1]) = "str" /\ JsonSafe(Val(v)[i][2])
      [] OTHER -> FALSE

IsVectorBatch(v) ==
    IsList(v) /\ \A i \in DOMAIN Val(v) : _is_vector(Val(v)[i])

C6_OnlyBatchesReachEngine ==
    (Op = "insert" /\ ~IsNone(req[2])) =>
        IF EngineCalled
        THEN Len(engineCalls) = 1 /\ IsVectorBatch(engineCalls[1][2])
        ELSE pc = "done" /\ HandlerRaised /\ outcome[2] = "ValueError"

\* C7 (as claimed): a search either raises ToolError with no engine call, or
\* calls the engine search exactly once with a non-empty list of numbers or a
\* non-empty list of non-empty lists of numbers.
NonEmptyVector(v) == _is_vector(v) /\ Val(v) # <<>>

C7_OnlyCanonicalQueriesReachEngine ==
    (Op = "search") =>
        IF EngineCalled
        THEN /\ Len(engineCalls) = 1
             /\ engineCalls[1][1] = "search"
             /\ \/ NonEmptyVector(engineCalls[1][2])
                \/ /\ IsList(engineCalls[1][2])
                   /\ Val(engineCalls[1][2]) # <<>>
                   /\ \A i \in DOMAIN Val(engineCalls[1][2]) :
                         NonEmptyVector(Val(engineCalls[1][2])[i])
        ELSE pc = "done" /\ HandlerRaised /\ outcome[2] = "ToolError"

\* C8: an insert with neither vectors nor metadata raises a validation fault,
\* and neither the engine nor the embedding collaborator is called.
C8_InsertNeedsVectorsOrMetadata ==
    (Op = "insert" /\ IsNone(req[2]) /\ IsNone(req[3])) =>
        /\ pc = "done"
        /\ outcome = <<"raise", "ValueError", "vectors_or_metadata_required">>
        /\ engineCalls = NoCalls
        /\ embedCalls = NoCalls

C8_Witness ==
    /\ req = <<"insert", PyNone, PyNone>>
    /\ embedding = "sbert"
    /\ pc = "done"
    /\ HandlerRaised

\* C9: with no embedding collaborator, a search whose query is a string that
\* is not valid JSON (free text, or empty once trimmed) raises a ToolError
\* asking for a JSON array, and the engine is not called.
C9_PlainTextQueryRejected ==
    (Op = "search" /\ embedding = "none" /\ IsStr(req[2])
        /\ IsRaise(json_loads(Val(req[2])))) =>
        /\ pc = "done"
        /\ HandlerRaised
        /\ outcome[2] = "ToolError"
        /\ outcome[3] \in {"query_empty", "query_plain_text"}
        /\ engineCalls = NoCalls

C9_Witness ==
    /\ req = <<"search", PyStr(<<" ", " ">>)>>
    /\ embedding = "none"
    /\ outcome = <<"raise", "ToolError", "query_empty">>

\* C10: insert treats malformed JSON asymmetrically.  A metadata string that
\* is not valid JSON never faults the call: the handler raises only for its
\* vectors or in the embedding collaborator, and otherwise the engine gets
\* the one-element list holding the raw string.  A vectors string that is
\* not valid JSON raises ValueError and the engine is not called.
BadJson(v) == IsStr(v) /\ IsRaise(json_loads(Val(v)))

C10_MalformedJsonAsymmetry ==
    (Op = "insert") =>
        /\ BadJson(req[2]) =>
            /\ pc = "done"
            /\ outcome = <<"raise", "ValueError", "vectors_json">>
            /\ engineCalls = NoCalls
        /\ (BadJson(req[3]) /\ ~BadJson(req[2])) =>
            IF EngineCalled
            THEN Len(engineCalls) = 1 /\ engineCalls[1][3] = PyList(<<req[3]>>)
            ELSE embedCalls = <<PyList(<<req[3]>>)>> /\ HandlerRaised

C10_Witness ==
    /\ req = <<"insert", PyList(<<Vec1, Vec1>>), PyStr(<<"x">>)>>
    /\ pc = "engine"
    /\ engineCalls = <<InsertCall(PyList(<<Vec1, Vec1>>), PyList(<<PyStr(<<"x">>)>>))>>

\* a number: an int or a float
IsNumber(v) == Tag(v) \in {"int", "float"}
\* a non-empty list of numbers, none of them a list
FlatNumbers(v) == IsList(v) /\ Val(v) # <<>> /\ \A i \in DOMAIN Val(v) : IsNumber(Val(v)[i])
\* a list of lists of numbers
NumberBatch(v) ==
    IsList(v) /\ \A i \in DOMAIN Val(v) :
        IsList(Val(v)[i]) /\ \A j \in DOMAIN Val(Val(v)[i]) : IsNumber(Val(Val(v)[i])[j])

\* C11 (as claimed): an insert whose vectors is a flat list of numbers (ints
\* and/or floats) calls the engine with the one-element batch holding exactly
\* that list.
C11_FlatListWrapped ==
    (Op = "insert" /\ FlatNumbers(req[2])) =>
        /\ EngineCalled
        /\ engineCalls[1][2] = PyList(<<req[2]>>)

\* the string is the JSON encoding of a non-empty array of non-empty arrays
\* of numbers
EncodesBatch(v) ==
    /\ IsStr(v)
    /\ ~IsRaise(json_loads(Val(v)))
    /\ LET d == json_loads(Val(v))[2] IN
        /\ NumberBatch(d)
        /\ Val(d) # <<>>
        /\ \A i \in DOMAIN Val(d) : Val(Val(d)[i]) # <<>>

\* C12 (as claimed): under every server configuration, a string that encodes
\* an array of number arrays, passed as vectors to insert or as query to
\* search, makes the engine receive the array the string encodes.
C12_EncodedBatchDecoded ==
    (Op \in {"insert", "search"} /\ EncodesBatch(req[2])) =>
        /\ EngineCalled
        /\ engineCalls[1][2] = json_loads(Val(req[2]))[2]

\* C13: an already-canonical argument reaches the engine as it was given: a
\* vectors value that is a list of lists of numbers (insert), a query that is
\* a list of numbers or a list of lists of numbers (search).
C13_CanonicalPassesThrough ==
    /\ (Op = "insert" /\ NumberBatch(req[2])) =>
        /\ EngineCalled
        /\ engineCalls[1][2] = req[2]
    /\ (Op = "search" /\ (FlatNumbers(req[2]) \/ NumberBatch(req[2]))) =>
        /\ EngineCalled
        /\ engineCalls[1] = SearchCall(req[2])

C13_Witness ==
    /\ req = <<"search", PyList(<<Vec1, Vec1>>)>>
    /\ embedding = "hf"
    /\ pc = "engine"
    /\ engineCalls = <<SearchCall(PyList(<<Vec1, Vec1>>))>>

\* C14 (as claimed): each normalization is idempotent on its own output:
\* applied to the value it handed to the engine (vectors and metadata of
\* insert, query of search) it returns that value unchanged.
C14_NormalizationIdempotent ==
    EngineCalled =>
        /\ (Op = "insert" /\ ~IsNone(req[2])) =>
            NormalizeVectors(engineCalls[1][2]) = Ok(engineCalls[1][2])
        /\ (Op = "insert" /\ ~IsNone(req[3])) =>
            NormalizeMetadata(engineCalls[1][3]) = engineCalls[1][3]
        /\ (Op = "search") =>
            _preprocess_query(engineCalls[1][2], embedding, "none")
                = Calls(SearchCall(engineCalls[1][2]), NoCalls)

\* the value is built only from None, booleans, numbers, strings, lists and
\* string-keyed mappings, and is finite: following more references than the
\* heap has cells means the value contains itself
RECURSIVE JsonTree(_, _, _)
JsonTree(h, v, fuel) ==
    CASE Tag(v) = "ref" -> fuel > 0 /\ JsonTree(h, h[Val(v)], fuel - 1)
      [] Tag(v) \in {"none", "bool", "int", "float", "str"} -> TRUE
      [] Tag(v) = "list" -> \A i \in DOMAIN Val(v) : JsonTree(h, Val(v)[i], fuel)
      [] Tag(v) = "dict" ->
            \A i \in DOMAIN Val(v) :
                Tag(Val(v)[i][1]) = "str" /\ JsonTree(h, Val(v)[i][2], fuel)
      [] OTHER -> FALSE

\* the value with every reference replaced by what it refers to
RECURSIVE Resolve(_, _)
Resolve(h, v) ==
    CASE Tag(v) = "ref" -> Resolve(h, h[Val(v)])
      [] Tag(v) = "list" -> PyList([i \in DOMAIN Val(v) |-> Resolve(h, Val(v)[i])])
      [] Tag(v) = "dict" ->
            PyDict([i \in DOMAIN Val(v) |->
                        <<Val(v)[i][1], Resolve(h, Val(v)[i][2])>>])
      [] OTHER -> v

\* C15: for every value built only from None, booleans, numbers, strings,
\* lists and string-keyed mappings, _to_json_available returns a value that
\* is deep-equal to its input.
C15_SanitizerRoundTrip ==
    (pc = "sanitized" /\ JsonTree(sanIn[1], sanIn[2], NCells)) =>
        sanOut = Resolve(sanIn[1], sanIn[2])

C15_Witness ==
    /\ pc = "sanitized"
    /\ sanIn[2] = Ref(1)
    /\ sanIn[1][1] = PyDict(<<<<PyStr(KeyA), Ref(2)>>>>)
    /\ sanIn[1][2] = PyList(<<PyInt(1)>>)
    /\ sanOut = PyDict(<<<<PyStr(KeyA), PyList(<<PyInt(1)>>)>>>>)

\* the object has none of model_dump, dict, to_dict
NoMethods(o) == \A i \in DOMAIN MethodNames : o[MethodNames[i]] = Absent
\* the object has no attribute dictionary, or one that is empty or holds
\* only underscore-prefixed names
NoPublicAttrs(o) ==
    \/ o.dct = Absent
    \/ /\ o.dct[1] = "dict"
       /\ \A i \in DOMAIN o.dct[2] :
            /\ Tag(o.dct[2][i][1]) = "str"
            /\ Val(o.dct[2][i][1]) # <<>>
            /\ Head(Val(o.dct[2][i][1])) = "_"

\* C16 (as claimed): an object that has none of the serialization methods
\* and no public attribute is sanitized to a non-empty string, its repr.
C16_OpaqueObjectToRepr ==
    (/\ pc = "sanitized"
     /\ sanIn[2] = Ref(1)
     /\ Tag(sanIn[1][1]) = "obj"
     /\ NoMethods(Val(sanIn[1][1]))
     /\ NoPublicAttrs(Val(sanIn[1][1]))) =>
        /\ Tag(sanOut) = "str"
        /\ Val(sanOut) # <<>>
        /\ sanOut = PyStr(Val(sanIn[1][1]).repr)

IsTexts(v) == IsList(v) /\ Val(v) # <<>> /\ \A i \in DOMAIN Val(v) : IsStr(Val(v)[i])

\* C18 (as claimed): in every embedding mode, get_embedding on a non-empty
\* list of texts returns one vector per text, the i-th being the embedding
\* of the i-th text, so the vectors inserted for a metadata batch align 1:1
\* with it.
C18_OneVectorPerText ==
    (Op = "insert" /\ EngineCalled /\ embedCalls # NoCalls /\ IsTexts(embedCalls[1])) =>
        /\ IsList(engineCalls[1][2])
        /\ Len(Val(engineCalls[1][2])) = Len(Val(embedCalls[1]))
        /\ \A i \in DOMAIN Val(embedCalls[1]) :
            Val(engineCalls[1][2])[i] = Embed(Val(embedCalls[1])[i])

\* what the invocation of frame f does when it runs alone: the handler's
\* fault or facade call, and the facade's envelope for the engine's answer
SoloRun(f) ==
    IF f.req[1] = "insert"
    THEN tool_insert(f.req[2], f.req[3], embedding, f.efault)
    ELSE tool_search(f.req[2], embedding, f.efault)
SoloEnvelope(f) ==
    IF f.req[1] = "insert" THEN call_insert(f.answer) ELSE call_search(f.answer)

\* C19: under every interleaving of the invocations in flight, a finished
\* invocation called the collaborators with the arguments, and ended with the
\* fault or the envelope, that it produces when it runs alone against the
\* same collaborator and engine responses.
C19_InvocationsIndependent ==
    \A t \in Tasks :
        frames[t].stage = "done" =>
            LET f == frames[t]
                s == SoloRun(f)
            IN  /\ f.embeds = s.embeds
                /\ IF s.fault # <<>>
                   THEN /\ f.called = <<>>
                        /\ f.outcome = <<"raise", s.fault[1], s.fault[2]>>
                   ELSE /\ f.called = s.call
                        /\ f.outcome = <<"return", SoloEnvelope(f)>>

C19_Witness ==
    /\ frames[1].stage = "done"
    /\ frames[1].req = <<"insert", PyNone, PyStr(<<"x">>)>>
    /\ frames[1].called # <<>>
    /\ frames[1].outcome[1] = "return"
    /\ frames[2].stage = "answered"
    /\ frames[2].req[1] = "search"

\* C20 (as claimed): the process exits on a signal only after every
\* invocation in flight has completed and delivered its response.
C20_ShutdownDrains ==
    proc = "exited" => \A t \in Tasks : frames[t].stage = "idle"

====
